---- MODULE Spec2Model ----
(***************************************************************************)
(* typix: the freehand-drawing core.  The canvas reducer and its helper    *)
(* functions (contexts/CanvasContext.tsx), the tool reducer                *)
(* (contexts/ToolContext.tsx) and the pan-responder handlers of the Canvas *)
(* component (components/Canvas.tsx) as one state machine.                 *)
(***************************************************************************)
EXTENDS Integers, Sequences, FiniteSets, TLC

VARIABLES
    state,      \* CanvasState held by useReducer(canvasReducer, ...)
    toolState,  \* ToolSettings held by useReducer(toolReducer, ...)
    lastOp,     \* history: the operation that ran last
    gesture,    \* history: what the current gesture started from
    calc,       \* a function called on its own: its arguments and what it returned
    app,        \* AppContent: isProcessing and the save and copy attempts
    settings,   \* AppSettings held by useState(initialSettings)
    closure     \* what the functions of the last CanvasProvider render read of
                \* the state of that render

vars == <<state, toolState, lastOp, gesture, calc, app, settings, closure>>

(***************************************************************************)
(* Bounds and input domains                                                *)
(***************************************************************************)

\* Most points held at once by the log and the in-progress command together.
MaxPts == 3

\* Longest points array handed to a path function on its own.
MaxLen == 4

\* Most points held at once by the log and the in-progress command together in
\* SpecRender.
MaxRenderPts == 6

\* Total points under changing tool settings (SpecStyle).
MaxStylePts == 4

\* Save and copy attempts that pass the guard.
MaxAttempts == 2

\* locationX / locationY of a touch event.
Points == { [x |-> 0, y |-> 0], [x |-> 10, y |-> 0] }

\* Results of generateId(): Math.random() gives no guarantee that two calls
\* differ, so a call yields any of them.
Ids == { "a", "b" }

\* The one touch position and the one id of SpecTool.
ToolPoints == { [x |-> 0, y |-> 0] }

ToolIds == { "a" }

\* Points of the arrays handed to the path functions on their own: from (0,0),
\* (1,1) is nearer than the default tolerance, (2,0) exactly at it, (10,0)
\* beyond it.
PathPoints ==
    { [x |-> 0, y |-> 0], [x |-> 1, y |-> 1], [x |-> 2, y |-> 0], [x |-> 10, y |-> 0] }

\* simplifyPath(points, tolerance = 2)
DefaultTolerance == 2

Tolerances == { 0, DefaultTolerance, 3 }

\* The touch positions of SpecRender.
RenderPoints == { [x |-> 0, y |-> 0], [x |-> 1, y |-> 0], [x |-> 10, y |-> 0] }

\* Touch positions under changing tool settings: two, nearer to each other than
\* the default tolerance.
StylePoints == { [x |-> 0, y |-> 0], [x |-> 1, y |-> 0] }

Black == [r |-> 0, g |-> 0, b |-> 0, a |-> 1]
Red == [r |-> 255, g |-> 0, b |-> 0, a |-> 1]
Colors == { Black, Red }

\* Sizes the brush-size picker can apply (slider 1..30, rounded).
Sizes == { 5, 10 }

ToolTypes == { "pen", "eraser", "selector" }

Opacities == { 0, 1 }

\* Qualities a caller can hand to the settings functions: within 0..100, at its
\* ends, and beyond them.
Qualities == { -1, 0, 1, 50, 99, 100, 101 }

\* Every Partial<AppSettings> over these values.
PartialSettings ==
    { [k \in fields |-> full[k]] :
        fields \in SUBSET {"darkMode", "autoSave", "webpQuality"},
        full \in [darkMode : BOOLEAN, autoSave : BOOLEAN, webpQuality : Qualities] }

\* A data URI as toDataURL and captureRef give it, and a file URI.
PngUri == "data:image/png;base64,iVBORw0KGgo="

FileUri == "file:///cache/capture.png"

Platforms == { "web", "ios", "android" }

\* What a call that gives a URI can do: throw, give an empty string, give a
\* data URI.
UriOutcomes == { "throw", "", PngUri }

Outcomes == { "ok", "throw" }

CaptureEnvs ==
    [ platform : Platforms,
      canvasRef : { "null", "noCurrent", "view", "htmlCanvas" },
      toDataURL : UriOutcomes, capture : UriOutcomes, fallback : UriOutcomes ]

SaveEnvs ==
    [ platform : Platforms,
      imageUri : { PngUri, FileUri },
      permission : { "granted", "denied", "throw" },
      write : Outcomes, createAsset : Outcomes,
      getAlbums : { "typix", "none", "throw" }, album : Outcomes ]

\* The browser calls are made on the web only, the file and sharing calls on
\* the native platforms only; the calls a platform does not make succeed.
ClipboardEnvs(platform) ==
    IF platform = "web"
    THEN [ fetch : Outcomes, blob : Outcomes, clipboardItem : BOOLEAN, write : Outcomes,
           setString : Outcomes, lastSetString : Outcomes,
           fileWrite : {"ok"}, sharing : {"available"}, share : {"ok"} ]
    ELSE [ fetch : {"ok"}, blob : {"ok"}, clipboardItem : {TRUE}, write : {"ok"},
           setString : Outcomes, lastSetString : Outcomes,
           fileWrite : Outcomes, sharing : { "available", "unavailable", "throw" },
           share : Outcomes ]

\* For copyCanvasToClipboard: the captures of a view that end at the first
\* captureRef or fail, with every behaviour of the clipboard.
CopyEnvs ==
    UNION { { capture @@ clipboard : clipboard \in ClipboardEnvs(capture.platform) } :
            capture \in { e \in CaptureEnvs : /\ e.canvasRef \in {"null", "view"}
                                              /\ e.toDataURL = "throw"
                                              /\ e.fallback = "throw" } }

Scales == { 1, 2 }

Offsets == { [x |-> 0, y |-> 0], [x |-> 3, y |-> 4] }

Dimensions == { [width |-> 0, height |-> 0], [width |-> 100, height |-> 200] }

(***************************************************************************)
(* Optional values: currentCommand?: DrawCommand                           *)
(***************************************************************************)

Undefined == << >>

Some(v) == << v >>

(***************************************************************************)
(* contexts/CanvasContext.tsx                                              *)
(***************************************************************************)

initialCanvasState ==
    [ commands       |-> << >>,
      currentCommand |-> Undefined,
      scale          |-> 1,
      offset         |-> [x |-> 0, y |-> 0],
      dimensions     |-> [width |-> 0, height |-> 0] ]

\* Variant: ADD_POINT without the test for a command in progress, as in
\* { ...state.currentCommand, points: [...(points || []), point] }.
canvasReducerNoGuard(s, action) ==
    CASE action.type = "START_STROKE" ->
            [s EXCEPT !.currentCommand =
                Some([ id     |-> action.payload.id,
                       type   |-> "stroke",
                       points |-> << action.payload.point >>,
                       style  |-> action.payload.style ])]
      [] action.type = "ADD_POINT" ->
            IF s.currentCommand = Undefined
            THEN [s EXCEPT !.currentCommand =
                    Some([ points |-> << action.payload.point >> ])]
            ELSE [s EXCEPT !.currentCommand =
                    Some([ s.currentCommand[1] EXCEPT
                             !.points = Append(@, action.payload.point) ])]
      [] action.type = "END_STROKE" ->
            IF s.currentCommand = Undefined
            THEN s
            ELSE [s EXCEPT !.commands = Append(@, s.currentCommand[1]),
                           !.currentCommand = Undefined]
      [] action.type = "CLEAR_CANVAS" ->
            [s EXCEPT !.commands = << >>, !.currentCommand = Undefined]
      [] action.type = "UNDO" ->
            IF Len(s.commands) = 0
            THEN s
            ELSE [s EXCEPT !.commands = SubSeq(@, 1, Len(@) - 1)]
      [] action.type = "SET_SCALE" ->
            [s EXCEPT !.scale = action.payload.scale]
      [] action.type = "SET_OFFSET" ->
            [s EXCEPT !.offset = [x |-> action.payload.x, y |-> action.payload.y]]
      [] action.type = "SET_DIMENSIONS" ->
            [s EXCEPT !.dimensions = [width  |-> action.payload.width,
                                      height |-> action.payload.height]]
      [] OTHER -> s

canvasReducer(s, action) ==
    CASE action.type = "START_STROKE" ->
            [s EXCEPT !.currentCommand =
                Some([ id     |-> action.payload.id,
                       type   |-> "stroke",
                       points |-> << action.payload.point >>,
                       style  |-> action.payload.style ])]
      [] action.type = "ADD_POINT" ->
            IF s.currentCommand = Undefined
            THEN s
            ELSE [s EXCEPT !.currentCommand =
                    Some([ s.currentCommand[1] EXCEPT
                             !.points = Append(@, action.payload.point) ])]
      [] action.type = "END_STROKE" ->
            IF s.currentCommand = Undefined
            THEN s
            ELSE [s EXCEPT !.commands = Append(@, s.currentCommand[1]),
                           !.currentCommand = Undefined]
      [] action.type = "CLEAR_CANVAS" ->
            [s EXCEPT !.commands = << >>, !.currentCommand = Undefined]
      [] action.type = "UNDO" ->
            IF Len(s.commands) = 0
            THEN s
            ELSE [s EXCEPT !.commands = SubSeq(@, 1, Len(@) - 1)]
      [] action.type = "SET_SCALE" ->
            [s EXCEPT !.scale = action.payload.scale]
      [] action.type = "SET_OFFSET" ->
            [s EXCEPT !.offset = [x |-> action.payload.x, y |-> action.payload.y]]
      [] action.type = "SET_DIMENSIONS" ->
            [s EXCEPT !.dimensions = [width  |-> action.payload.width,
                                      height |-> action.payload.height]]
      [] OTHER -> s

\* Variant: the width handed in is dropped for a fixed one.
startStrokeFixedWidth(s, x, y, color, width, id) ==
    canvasReducer(s, [ type    |-> "START_STROKE",
                       payload |-> [ id    |-> id,
                                     point |-> [x |-> x, y |-> y],
                                     style |-> [color |-> color, width |-> 1] ] ])

\* Variant: a command in progress is committed before the new one starts.
startStrokeFinalizes(s, x, y, color, width, id) ==
    canvasReducer(canvasReducer(s, [type |-> "END_STROKE"]),
                  [ type    |-> "START_STROKE",
                    payload |-> [ id    |-> id,
                                  point |-> [x |-> x, y |-> y],
                                  style |-> [color |-> color, width |-> width] ] ])

startStroke(s, x, y, color, width, id) ==
    canvasReducer(s, [ type    |-> "START_STROKE",
                       payload |-> [ id    |-> id,
                                     point |-> [x |-> x, y |-> y],
                                     style |-> [color |-> color, width |-> width] ] ])

\* Variant: the new point is put in front of the points captured so far.
continueStrokePrepend(s, x, y) ==
    IF s.currentCommand = Undefined
    THEN s
    ELSE [s EXCEPT !.currentCommand =
            Some([ s.currentCommand[1] EXCEPT
                     !.points = << [x |-> x, y |-> y] >> \o @ ])]

\* Variant: no test for a command in progress, as in
\* { ...state.currentCommand, points: [...(points || []), point] }.
continueStrokeNoGuard(s, x, y) ==
    IF s.currentCommand = Undefined
    THEN [s EXCEPT !.currentCommand = Some([ points |-> << [x |-> x, y |-> y] >> ])]
    ELSE canvasReducer(s, [ type    |-> "ADD_POINT",
                            payload |-> [ point |-> [x |-> x, y |-> y] ] ])

continueStroke(s, x, y) ==
    canvasReducer(s, [ type    |-> "ADD_POINT",
                       payload |-> [ point |-> [x |-> x, y |-> y] ] ])

\* Variant: the finished command is put in front of the log.
endStrokePrepend(s) ==
    IF s.currentCommand = Undefined
    THEN s
    ELSE [s EXCEPT !.commands = s.currentCommand \o @,
                   !.currentCommand = Undefined]

\* Variant: a command of a single point is dropped instead of committed.
endStrokeDropsTap(s) ==
    IF s.currentCommand # Undefined /\ Len(s.currentCommand[1].points) < 2
    THEN [s EXCEPT !.currentCommand = Undefined]
    ELSE canvasReducer(s, [type |-> "END_STROKE"])

endStroke(s) == canvasReducer(s, [type |-> "END_STROKE"])

\* Variant: the log is emptied, the command in progress is kept.
clearCanvasKeepsCurrent(s) == [s EXCEPT !.commands = << >>]

clearCanvas(s) == canvasReducer(s, [type |-> "CLEAR_CANVAS"])

\* Variant: the first entry is removed (slice(1)) instead of the last.
undoFirst(s) ==
    IF Len(s.commands) = 0 THEN s ELSE [s EXCEPT !.commands = Tail(@)]

\* Variant: undo empties the log.
undoAll(s) == [s EXCEPT !.commands = << >>]

undo(s) == canvasReducer(s, [type |-> "UNDO"])

\* The state.dimensions a render of CanvasProvider gives to the
\* setCanvasDimensions it creates; called: the effect of Canvas has run with
\* the function of this render.
Closure(s) == [ dimensions |-> s.dimensions, called |-> FALSE ]

initialClosure == Closure(initialCanvasState)

\* Variant: width and height change places in the payload.
setCanvasDimensionsSwapped(rendered, s, width, height) ==
    IF width # rendered.dimensions.width \/ height # rendered.dimensions.height
    THEN canvasReducer(s, [ type    |-> "SET_DIMENSIONS",
                            payload |-> [width |-> height, height |-> width] ])
    ELSE s

\* The actions setCanvasDimensions dispatches.  rendered: the state of the
\* render that created the function, which its guard reads.
setCanvasDimensionsDispatched(rendered, width, height) ==
    IF width # rendered.dimensions.width \/ height # rendered.dimensions.height
    THEN << [ type    |-> "SET_DIMENSIONS",
              payload |-> [width |-> width, height |-> height] ] >>
    ELSE << >>

\* Variant: a change of dimensions starts the drawing afresh.
setCanvasDimensionsResets(rendered, s, width, height) ==
    IF width # rendered.dimensions.width \/ height # rendered.dimensions.height
    THEN [ initialCanvasState EXCEPT
             !.dimensions = [width |-> width, height |-> height] ]
    ELSE s

\* s: the state the reducer holds when the dispatch arrives.
setCanvasDimensions(rendered, s, width, height) ==
    IF width # rendered.dimensions.width \/ height # rendered.dimensions.height
    THEN canvasReducer(s, [ type    |-> "SET_DIMENSIONS",
                            payload |-> [width |-> width, height |-> height] ])
    ELSE s

(***************************************************************************)
(* contexts/ToolContext.tsx                                                *)
(***************************************************************************)

initialToolSettings ==
    [ type |-> "pen", color |-> Black, size |-> 5, opacity |-> 1 ]

toolReducer(t, action) ==
    CASE action.type = "SET_TOOL"    -> [t EXCEPT !.type = action.payload.tool]
      [] action.type = "SET_COLOR"   -> [t EXCEPT !.color = action.payload.color]
      [] action.type = "SET_SIZE"    -> [t EXCEPT !.size = action.payload.size]
      [] action.type = "SET_OPACITY" -> [t EXCEPT !.opacity = action.payload.opacity]
      [] OTHER -> t

setTool(t, tool) == toolReducer(t, [type |-> "SET_TOOL", payload |-> [tool |-> tool]])

setColor(t, r, g, b, a) ==
    toolReducer(t, [ type    |-> "SET_COLOR",
                     payload |-> [color |-> [r |-> r, g |-> g, b |-> b, a |-> a]] ])

setSize(t, size) == toolReducer(t, [type |-> "SET_SIZE", payload |-> [size |-> size]])

setOpacity(t, opacity) ==
    toolReducer(t, [type |-> "SET_OPACITY", payload |-> [opacity |-> opacity]])

(***************************************************************************)
(* modules/canvas/bezierUtils.ts                                           *)
(*                                                                         *)
(* A coordinate of a point is an integer.  The coordinates a path is built *)
(* from are halves and sixths of integers: they are kept exact, as         *)
(* fractions in lowest terms.  An array element is its own object, as      *)
(* START_STROKE and ADD_POINT build it, so that !== on two elements of an  *)
(* array compares their places in it.                                      *)
(***************************************************************************)

Abs(n) == IF n < 0 THEN -n ELSE n

RECURSIVE Gcd(_, _)
Gcd(a, b) == IF b = 0 THEN a ELSE Gcd(b, a % b)

\* n / d for d > 0.
Rat(n, d) ==
    LET g == Gcd(Abs(n), d) IN [num |-> n \div g, den |-> d \div g]

Num(n) == Rat(n, 1)

Plus(a, b) == Rat(a.num * b.den + b.num * a.den, a.den * b.den)

\* a / k for an integer k > 0.
Over(a, k) == Rat(a.num, a.den * k)

\* Variant: the tangent is divided by 3.
getControlPointsThird(p0, p1, p2) ==
    [ x |-> Plus(Num(p1.x), Over(Num(p2.x - p0.x), 3)),
      y |-> Plus(Num(p1.y), Over(Num(p2.y - p0.y), 3)) ]

getControlPoints(p0, p1, p2) ==
    [ x |-> Plus(Num(p1.x), Over(Num(p2.x - p0.x), 6)),
      y |-> Plus(Num(p1.y), Over(Num(p2.y - p0.y), 6)) ]

\* Variant: > in place of >=.
DistanceAtLeastStrict(point, lastPoint, tolerance) ==
    \/ tolerance < 0
    \/   (point.x - lastPoint.x) * (point.x - lastPoint.x)
       + (point.y - lastPoint.y) * (point.y - lastPoint.y)
       > tolerance * tolerance

\* Math.sqrt(dx^2 + dy^2) >= tolerance.  The square root of an integer is at
\* least the integer tolerance > 0 exactly when the integer is at least its
\* square.
DistanceAtLeast(point, lastPoint, tolerance) ==
    \/ tolerance <= 0
    \/   (point.x - lastPoint.x) * (point.x - lastPoint.x)
       + (point.y - lastPoint.y) * (point.y - lastPoint.y)
       >= tolerance * tolerance

\* The for loop of simplifyPath from index i on: result holds the places (from
\* 1) of the elements pushed so far, the last of them being lastPoint.
RECURSIVE SimplifyLoop(_, _, _, _)
SimplifyLoop(points, tolerance, i, result) ==
    IF i > Len(points)
    THEN result
    ELSE IF DistanceAtLeast(points[i], points[result[Len(result)]], tolerance)
         THEN SimplifyLoop(points, tolerance, i + 1, Append(result, i))
         ELSE SimplifyLoop(points, tolerance, i + 1, result)

\* An array holds objects.  points are their values and refs tells which
\* object each place holds: two places hold the same object exactly when their
\* refs are equal.  !== compares the objects.

\* An array of objects of their own, as START_STROKE and ADD_POINT build it
\* from the { x, y } literals of startStroke and continueStroke.
Distinct(points) == [i \in 1..Len(points) |-> i]

\* Variant: the last point is not pushed after the loop.
simplifyPathNoLast(points, refs, tolerance) ==
    IF Len(points) <= 2
    THEN points
    ELSE LET result == SimplifyLoop(points, tolerance, 2, << 1 >>)
         IN  [k \in 1..Len(result) |-> points[result[k]]]

\* Variant: arrays of two points go through the loop too, and the last point is
\* pushed only if it differs in x or y from the last one kept.
simplifyPathByValue(points, refs, tolerance) ==
    IF Len(points) < 2
    THEN points
    ELSE LET result == SimplifyLoop(points, tolerance, 2, << 1 >>)
             all    == IF points[result[Len(result)]] # points[Len(points)]
                       THEN Append(result, Len(points))
                       ELSE result
         IN  [k \in 1..Len(all) |-> points[all[k]]]

\* Variant: the last point is pushed after the loop without looking whether the
\* loop pushed it already.
simplifyPathAlwaysPushLast(points, refs, tolerance) ==
    IF Len(points) <= 2
    THEN points
    ELSE LET result == SimplifyLoop(points, tolerance, 2, << 1 >>)
             all    == Append(result, Len(points))
         IN  [k \in 1..Len(all) |-> points[all[k]]]

\* The places of points that simplifyPath returns, in order.
simplifyPathPlaces(points, refs, tolerance) ==
    IF Len(points) <= 2
    THEN [k \in 1..Len(points) |-> k]
    ELSE LET result == SimplifyLoop(points, tolerance, 2, << 1 >>)
         IN  IF refs[result[Len(result)]] # refs[Len(points)]
             THEN Append(result, Len(points))
             ELSE result

simplifyPath(points, refs, tolerance) ==
    LET all == simplifyPathPlaces(points, refs, tolerance)
    IN  [k \in 1..Len(all) |-> points[all[k]]]

\* The parts of the path data: M x,y   L x,y   Q cx,cy x,y
MoveTo(x, y) == << "M", x, y >>

LineTo(x, y) == << "L", x, y >>

QuadTo(cx, cy, x, y) == << "Q", cx, cy, x, y >>

\* The middle segments of createSmoothPath, for i (from 0) = k .. length - 2.
MiddleSegments(points) ==
    [ k \in 1..(Len(points) - 2) |->
        LET p0 == points[k]
            p1 == points[k + 1]
            p2 == points[k + 2]
            cp == getControlPoints(p0, p1, p2)
        IN  QuadTo(cp.x, cp.y, Over(Num(p1.x + p2.x), 2), Over(Num(p1.y + p2.y), 2)) ]

\* Variant: two points are not told apart from more.
createSmoothPathNoLine(points) ==
    IF Len(points) < 2
    THEN << >>
    ELSE << MoveTo(Num(points[1].x), Num(points[1].y)),
            QuadTo(Num(points[1].x), Num(points[1].y),
                   Over(Num(points[1].x + points[2].x), 2),
                   Over(Num(points[1].y + points[2].y), 2)) >>
         \o MiddleSegments(points)
         \o << LineTo(Num(points[Len(points)].x), Num(points[Len(points)].y)) >>

\* Variant: the last line goes to points[secondLastIndex].
createSmoothPathSecondLast(points) ==
    IF Len(points) < 2
    THEN << >>
    ELSE IF Len(points) = 2
    THEN << MoveTo(Num(points[1].x), Num(points[1].y)),
            LineTo(Num(points[2].x), Num(points[2].y)) >>
    ELSE << MoveTo(Num(points[1].x), Num(points[1].y)),
            QuadTo(Num(points[1].x), Num(points[1].y),
                   Over(Num(points[1].x + points[2].x), 2),
                   Over(Num(points[1].y + points[2].y), 2)) >>
         \o MiddleSegments(points)
         \o << LineTo(Num(points[Len(points) - 1].x), Num(points[Len(points) - 1].y)) >>

createSmoothPath(points) ==
    IF Len(points) < 2
    THEN << >>
    ELSE IF Len(points) = 2
    THEN << MoveTo(Num(points[1].x), Num(points[1].y)),
            LineTo(Num(points[2].x), Num(points[2].y)) >>
    ELSE << MoveTo(Num(points[1].x), Num(points[1].y)),
            QuadTo(Num(points[1].x), Num(points[1].y),
                   Over(Num(points[1].x + points[2].x), 2),
                   Over(Num(points[1].y + points[2].y), 2)) >>
         \o MiddleSegments(points)
         \o << LineTo(Num(points[Len(points)].x), Num(points[Len(points)].y)) >>

(***************************************************************************)
(* utils/colorUtils.ts                                                     *)
(***************************************************************************)

rgbToString(color) ==
    LET a == IF "a" \in DOMAIN color THEN color.a ELSE 1
    IN  "rgba(" \o ToString(color.r) \o ", " \o ToString(color.g) \o ", "
        \o ToString(color.b) \o ", " \o ToString(a) \o ")"

(***************************************************************************)
(* components/BrushSizeSlider.tsx: the brush-size picker                   *)
(***************************************************************************)

\* minimumValue and maximumValue of the <Slider>.
SliderMinimum == 1

SliderMaximum == 30

\* Values the slider hands to onValueChange: both ends and fractions next to
\* them.
SliderValues ==
    { Num(SliderMinimum), Rat(4 * SliderMinimum + 1, 4), Rat(2 * SliderMinimum + 1, 2),
      Rat(2 * SliderMaximum - 1, 2), Num(SliderMaximum) }

\* Math.round of a fraction: the nearest integer, halves going up.
MathRound(r) == (2 * r.num + r.den) \div (2 * r.den)

\* Variant: a preset of 0 among the presets.
presetSizesWithZero == << 0, 1, 3, 5, 10, 15, 20 >>

presetSizes == << 1, 3, 5, 10, 15, 20 >>

\* The size the picker shows after the slider moved to value.
handleSizeChange(value) == MathRound(value)

\* The sizes the picker can show: the tool size it opened with, a rounded
\* slider value, a preset.
PickerSizes(t) ==
    { t.size }
    \cup { handleSizeChange(value) : value \in SliderValues }
    \cup { presetSizes[k] : k \in 1..Len(presetSizes) }

\* Apply: the size shown becomes the tool size.
handleApply(t, size) == setSize(t, size)

(***************************************************************************)
(* components/Canvas.tsx: what the component renders                       *)
(***************************************************************************)

\* Variant: the path takes the color and size of the tool settings as they are
\* when it is rendered.
PathElementToolStyle(key, command) ==
    [ key            |-> key,
      d              |-> createSmoothPath(simplifyPath(command.points, Distinct(command.points), DefaultTolerance)),
      stroke         |-> rgbToString(toolState.color),
      strokeWidth    |-> toolState.size,
      strokeLinecap  |-> "round",
      strokeLinejoin |-> "round",
      fill           |-> "none" ]

\* Variant: the path is filled with its stroke color.
PathElementFilled(key, command) ==
    [ key            |-> key,
      d              |-> createSmoothPath(simplifyPath(command.points, Distinct(command.points), DefaultTolerance)),
      stroke         |-> rgbToString(command.style.color),
      strokeWidth    |-> command.style.width,
      strokeLinecap  |-> "round",
      strokeLinejoin |-> "round",
      fill           |-> rgbToString(command.style.color) ]

\* The <Path> element of a command; key is Undefined where the element has none.
PathElement(key, command) ==
    [ key            |-> key,
      d              |-> createSmoothPath(simplifyPath(command.points, Distinct(command.points), DefaultTolerance)),
      stroke         |-> rgbToString(command.style.color),
      strokeWidth    |-> command.style.width,
      strokeLinecap  |-> "round",
      strokeLinejoin |-> "round",
      fill           |-> "none" ]

\* Variant: the test of the number of points is missing.
renderPathAnyLength(command) ==
    IF \/ "points" \notin DOMAIN command
       \/ "style" \notin DOMAIN command
    THEN Undefined
    ELSE Some(PathElement(Some(command.id), command))

\* null (Undefined) or the <Path> of a command of the log.
renderPath(command) ==
    IF \/ "points" \notin DOMAIN command
       \/ Len(command.points) < 2
       \/ "style" \notin DOMAIN command
    THEN Undefined
    ELSE Some(PathElement(Some(command.id), command))

\* Variant: the path being drawn is smoothed without being simplified first.
renderCurrentPathRaw(s) ==
    IF \/ s.currentCommand = Undefined
       \/ "points" \notin DOMAIN s.currentCommand[1]
       \/ Len(s.currentCommand[1].points) < 2
       \/ "style" \notin DOMAIN s.currentCommand[1]
    THEN Undefined
    ELSE Some([ PathElement(Undefined, s.currentCommand[1]) EXCEPT
                  !.d = createSmoothPath(s.currentCommand[1].points) ])

renderCurrentPath(s) ==
    IF \/ s.currentCommand = Undefined
       \/ "points" \notin DOMAIN s.currentCommand[1]
       \/ Len(s.currentCommand[1].points) < 2
       \/ "style" \notin DOMAIN s.currentCommand[1]
    THEN Undefined
    ELSE Some(PathElement(Undefined, s.currentCommand[1]))

\* A list of children without the nulls.
RECURSIVE Elements(_)
Elements(children) ==
    IF children = << >> THEN << >> ELSE Head(children) \o Elements(Tail(children))

\* Variant: the path being drawn comes first.
CanvasRenderCurrentFirst(s) ==
    Elements(<< renderCurrentPath(s) >>
             \o [i \in 1..Len(s.commands) |-> renderPath(s.commands[i])])

\* The <Path> elements of <G>, in the order they are drawn.
CanvasRender(s) ==
    Elements([i \in 1..Len(s.commands) |-> renderPath(s.commands[i])]
             \o << renderCurrentPath(s) >>)

\* StyleSheet.create({ container: ... })
styles ==
    [ container |-> [ backgroundColor |-> "transparent",
                      borderWidth     |-> 1,
                      borderColor     |-> "#cccccc" ] ]

\* The <View> the component returns for props width and height: its style is
\* [styles.container, { width, height }], later entries winning, and its
\* <Svg><G> holds the paths.
CanvasView(s, props) ==
    [ style    |-> [width |-> props.width, height |-> props.height] @@ styles.container,
      children |-> CanvasRender(s) ]

(***************************************************************************)
(* components/Canvas.tsx: the pan-responder handlers                       *)
(***************************************************************************)

onPanResponderGrant(s, t, event, id) ==
    startStroke(s, event.locationX, event.locationY, t.color, t.size, id)

onPanResponderMove(s, event) ==
    continueStroke(s, event.locationX, event.locationY)

onPanResponderRelease(s) == endStroke(s)

\* Variant: a cancelled gesture is thrown away.
onPanResponderTerminateDiscards(s) == [s EXCEPT !.currentCommand = Undefined]

onPanResponderTerminate(s) == endStroke(s)

\* Variant: REDO puts the last entry of the log on the log once more.
dispatchRedoRepeats(s, action) ==
    IF action.type = "REDO" /\ Len(s.commands) > 0
    THEN [s EXCEPT !.commands = Append(@, s.commands[Len(s.commands)])]
    ELSE canvasReducer(s, action)

\* The dispatch of useReducer(canvasReducer, initialCanvasState), which the
\* context hands out.
dispatch(s, action) == canvasReducer(s, action)

(***************************************************************************)
(* Calls that can throw.  What a function does is a record: threw, value   *)
(* (what it returned, when it did not throw) and calls, the calls it made  *)
(* to the platform, in order, with the awaits of promises of this module's *)
(* own functions between them.  null is Undefined, a string s is Some(s).  *)
(***************************************************************************)

Null == Undefined

Returned(v, calls) == [ threw |-> FALSE, value |-> v, calls |-> calls ]

\* An Error thrown after these calls; value stands for nothing.
Thrown(v, calls) == [ threw |-> TRUE, value |-> v, calls |-> calls ]

\* try { body } catch (error) { return v }
CatchReturn(body, v) == IF body.threw THEN Returned(v, body.calls) ELSE body

\* !value for a string or null
Falsy(v) == v = Null \/ v = Some("")



\* imageUri.startsWith('data:')
StartsWithData(uri) == uri = PngUri


(***************************************************************************)
(* modules/image/galleryUtils.ts                                           *)
(***************************************************************************)

\* env.canvasRef: "null" (no ref object), "noCurrent" (current is null),
\* "view", "htmlCanvas".  env.toDataURL, env.capture, env.fallback: "throw" or
\* the string toDataURL, the first captureRef and the second captureRef give.
captureCanvasAsPngBody(env) ==
    IF env.canvasRef = "null"
    THEN Thrown(Null, << >>)
    ELSE IF env.platform = "web" /\ env.canvasRef = "htmlCanvas"
    THEN IF env.toDataURL = "throw"
         THEN Thrown(Null, << "toDataURL" >>)
         ELSE Returned(Some(env.toDataURL), << "toDataURL" >>)
    ELSE IF env.capture # "throw"
    THEN Returned(Some(env.capture), << "setTimeout", "captureRef" >>)
    ELSE IF env.fallback # "throw"
    THEN Returned(Some(env.fallback), << "setTimeout", "captureRef", "captureRef" >>)
    ELSE Thrown(Null, << "setTimeout", "captureRef", "captureRef" >>)

\* Variant: the outer catch throws the error on.
captureCanvasAsPngRethrows(env) == captureCanvasAsPngBody(env)

captureCanvasAsPng(env) == CatchReturn(captureCanvasAsPngBody(env), Null)

\* env.permission: "granted", "denied" or "throw"; env.write, env.createAsset,
\* env.album: "ok" or "throw"; env.getAlbums: "typix", "none" or "throw".
saveToGalleryBody(imageUri, env) ==
    IF env.platform = "web"
    THEN Returned(TRUE, << "link.click" >>)
    ELSE IF env.permission # "granted"
    THEN Thrown(FALSE, << "requestPermissionsAsync" >>)
    ELSE LET asked   == << "requestPermissionsAsync" >>
             written == IF StartsWithData(imageUri)
                        THEN asked \o << "writeAsStringAsync" >>
                        ELSE asked
             created == written \o << "createAssetAsync" >>
             listed  == created \o << "getAlbumsAsync" >>
             filed   == listed \o (IF env.getAlbums = "typix"
                                    THEN << "addAssetsToAlbumAsync" >>
                                    ELSE << "createAlbumAsync" >>)
         IN  IF StartsWithData(imageUri) /\ env.write = "throw"
             THEN Thrown(FALSE, written)
             ELSE IF env.createAsset = "throw"
             THEN Thrown(FALSE, created)
             ELSE IF env.getAlbums = "throw"
             THEN Thrown(FALSE, listed)
             ELSE IF env.album = "throw"
             THEN Thrown(FALSE, filed)
             ELSE Returned(TRUE, filed)

saveToGallery(imageUri, env) == CatchReturn(saveToGalleryBody(imageUri, env), FALSE)

(***************************************************************************)
(* modules/clipboard/clipboardUtils.ts                                     *)
(***************************************************************************)

\* Clipboard.setStringAsync after these calls: true, or the error goes on.
SetString(outcome, calls) ==
    IF outcome = "throw"
    THEN Thrown(FALSE, calls \o << "setStringAsync" >>)
    ELSE Returned(TRUE, calls \o << "setStringAsync" >>)

\* setClipboardContent(content): false for an empty content and when
\* setStringAsync throws.  env.setString: "ok" or "throw".
setClipboardContent(content, env) ==
    IF content = ""
    THEN Returned(FALSE, << >>)
    ELSE CatchReturn(SetString(env.setString, << >>), FALSE)

\* copyImageToClipboard awaits the promise of setClipboardContent; the await
\* stands in calls after the calls of that function.
AwaitSetClipboardContent == "await setClipboardContent"

\* The try of the web branch, up to its catch (modernError).  env.fetch,
\* env.blob, env.write: "ok" or "throw"; env.clipboardItem: is ClipboardItem
\* defined (new ClipboardItem throws where it is not).
copyImageWebModern(env) ==
    IF env.fetch = "throw"
    THEN Thrown(FALSE, << "fetch" >>)
    ELSE IF env.blob = "throw"
    THEN Thrown(FALSE, << "fetch", "blob" >>)
    ELSE IF ~env.clipboardItem
    THEN Thrown(FALSE, << "fetch", "blob" >>)
    ELSE IF env.write = "throw"
    THEN Thrown(FALSE, << "fetch", "blob", "clipboard.write" >>)
    ELSE Returned(TRUE, << "fetch", "blob", "clipboard.write" >>)

\* The outer try.  env.fileWrite, env.share: "ok" or "throw"; env.sharing:
\* "available", "unavailable" or "throw"; env.setString: "ok" or "throw".
copyImageToClipboardBody(base64Data, env) ==
    IF base64Data = ""
    THEN Thrown(FALSE, << >>)
    ELSE IF env.platform = "web"
    THEN LET modern == copyImageWebModern(env)
         IN  IF modern.threw THEN SetString(env.setString, modern.calls) ELSE modern
    ELSE IF env.fileWrite = "throw"
    THEN Thrown(FALSE, << "writeAsStringAsync" >>)
    ELSE IF env.sharing = "throw"
    THEN Thrown(FALSE, << "writeAsStringAsync", "isAvailableAsync" >>)
    ELSE IF env.sharing = "available"
    THEN IF env.share = "throw"
         THEN Thrown(FALSE, << "writeAsStringAsync", "isAvailableAsync", "shareAsync" >>)
         ELSE Returned(TRUE, << "writeAsStringAsync", "isAvailableAsync", "shareAsync" >>)
    ELSE LET set == setClipboardContent(base64Data, env)
         IN  Returned(set.value,
                      << "writeAsStringAsync", "isAvailableAsync" >>
                          \o set.calls \o << AwaitSetClipboardContent >>)

\* The outer catch: setStringAsync once more for a non-empty base64Data, false
\* when that throws too.  env.lastSetString: "ok" or "throw".
copyImageToClipboard(base64Data, env) ==
    LET body == copyImageToClipboardBody(base64Data, env)
    IN  IF body.threw
        THEN IF base64Data = ""
             THEN Returned(FALSE, body.calls)
             ELSE CatchReturn(SetString(env.lastSetString, body.calls), FALSE)
        ELSE body

(***************************************************************************)
(* modules/image/galleryUtils.ts: copyCanvasToClipboard                    *)
(***************************************************************************)

\* copyCanvasToClipboard awaits the promises of captureCanvasAsPng and of
\* copyImageToClipboard, also when these have finished without waiting: after
\* the calls of each, it is suspended once more before it goes on.  The two
\* awaits stand in calls at their places.
AwaitCapture == "await captureCanvasAsPng"

AwaitCopyImage == "await copyImageToClipboard"

copyCanvasToClipboardBody(env) ==
    LET capture  == captureCanvasAsPng(env)
        captured == capture.calls \o << AwaitCapture >>
        copied   == copyImageToClipboard(capture.value[1], env)
    IN  IF capture.threw
        THEN Thrown(FALSE, captured)
        ELSE IF Falsy(capture.value)
        THEN Thrown(FALSE, captured)
        ELSE [ copied EXCEPT !.calls = captured \o @ \o << AwaitCopyImage >> ]

copyCanvasToClipboard(env) == CatchReturn(copyCanvasToClipboardBody(env), FALSE)

(***************************************************************************)
(* contexts/SettingsContext.tsx                                            *)
(***************************************************************************)

initialSettings == [ darkMode |-> FALSE, autoSave |-> TRUE, webpQuality |-> 90 ]

MathMax(a, b) == IF a >= b THEN a ELSE b

MathMin(a, b) == IF a <= b THEN a ELSE b

\* { ...prevSettings, ...newSettings }: the fields of newSettings win.
updateSettings(prevSettings, newSettings) == newSettings @@ prevSettings

toggleDarkMode(prevSettings) ==
    [prevSettings EXCEPT !.darkMode = ~prevSettings.darkMode]

toggleAutoSave(prevSettings) ==
    [prevSettings EXCEPT !.autoSave = ~prevSettings.autoSave]

setWebpQuality(prevSettings, quality) ==
    LET validQuality == MathMax(0, MathMin(100, quality))
    IN  [prevSettings EXCEPT !.webpQuality = validQuality]

(***************************************************************************)
(* App.tsx: AppContent                                                     *)
(***************************************************************************)

\* isProcessing: the state of useState(false).  rendered: the isProcessing of
\* the last render, which the handlers close over and which disables the save
\* and copy buttons.  platform: Platform.OS.  attempts: history, one entry for
\* each press that passed the guard.
initialAppState ==
    [ isProcessing |-> FALSE, rendered |-> FALSE, platform |-> "web",
      attempts |-> << >> ]

\* An attempt: which handler runs, the await it is suspended at ("done" once
\* the handler has returned), the value the promise it awaits has settled with
\* (Undefined while the promise is pending), what the capture and the save or
\* copy returned (Undefined until they have), and the messages shown.
NewAttempt(kind) ==
    [ kind |-> kind, pc |-> "start", settled |-> Undefined, pngUri |-> Undefined,
      success |-> Undefined, feedback |-> << >> ]

InFlight(a) == { i \in DOMAIN a.attempts : a.attempts[i].pc # "done" }

\* showMinimalFeedback shows the message once, by a toast, an alert or the
\* console; i is the attempt that shows it.
showMinimalFeedback(a, i, message) ==
    [a EXCEPT !.attempts[i].feedback = Append(@, message)]

setIsProcessing(a, value) == [a EXCEPT !.isProcessing = value]

\* A render: the handlers are made again over the current isProcessing
\* (useCallback dependencies) and the buttons get disabled={isProcessing}.
RenderStale(a) == a

Render(a) == [a EXCEPT !.rendered = a.isProcessing]

\* catch { showMinimalFeedback(failure) } finally { setIsProcessing(false) },
\* after which the handler returns.
CatchFinally(a, i, message) ==
    setIsProcessing([showMinimalFeedback(a, i, message) EXCEPT !.attempts[i].pc = "done"],
                    FALSE)

\* showMinimalFeedback(success), then the finally.
SuccessFinally(a, i, message) ==
    setIsProcessing([showMinimalFeedback(a, i, message) EXCEPT !.attempts[i].pc = "done"],
                    FALSE)

\* handleSavePress up to its first await.  current: canvasRef.current is set.
\* A disabled button does not call the handler, and the handler returns at
\* once when the isProcessing it closes over is true.
handleSavePress(a, current) ==
    IF a.rendered
    THEN a
    ELSE LET i == Len(a.attempts) + 1
             started == setIsProcessing(
                            [a EXCEPT !.attempts = Append(@, NewAttempt("save"))], TRUE)
         IN  IF ~current
             THEN CatchFinally(started, i, "Could not save image")
             ELSE [started EXCEPT !.attempts[i].pc = "captureCanvasAsPng"]

\* handleSavePress from the return of captureCanvasAsPng to the next await.
handleSavePressCaptured(a, i, pngUri) ==
    LET got == [a EXCEPT !.attempts[i].pngUri = Some(pngUri),
                         !.attempts[i].settled = Undefined]
    IN  IF Falsy(pngUri)
        THEN CatchFinally(got, i, "Could not save image")
        ELSE [got EXCEPT !.attempts[i].pc = "saveToGallery"]

\* handleSavePress from the return of saveToGallery to its end.
handleSavePressSavedAlwaysSucceeds(a, i, success) ==
    SuccessFinally([a EXCEPT !.attempts[i].success = Some(success),
                             !.attempts[i].settled = Undefined], i, "Saved to gallery")

handleSavePressSaved(a, i, success) ==
    LET got == [a EXCEPT !.attempts[i].success = Some(success),
                         !.attempts[i].settled = Undefined]
    IN  IF success
        THEN SuccessFinally(got, i, "Saved to gallery")
        ELSE CatchFinally(got, i, "Could not save image")

\* handleCopyToClipboardPress up to its await.
handleCopyToClipboardPress(a, current) ==
    IF a.rendered
    THEN a
    ELSE LET i == Len(a.attempts) + 1
             started == setIsProcessing(
                            [a EXCEPT !.attempts = Append(@, NewAttempt("copy"))], TRUE)
         IN  IF ~current
             THEN CatchFinally(started, i, "Could not copy to clipboard")
             ELSE [started EXCEPT !.attempts[i].pc = "copyCanvasToClipboard"]

\* handleCopyToClipboardPress from the return of copyCanvasToClipboard to its
\* end.  pngUri is what the capture inside copyCanvasToClipboard returned.
handleCopyToClipboardPressCopied(a, i, pngUri, success) ==
    LET got == [a EXCEPT !.attempts[i].pngUri = Some(pngUri),
                         !.attempts[i].success = Some(success),
                         !.attempts[i].settled = Undefined]
    IN  IF success
        THEN SuccessFinally(got, i, "Copied to clipboard")
        ELSE CatchFinally(got, i, "Could not copy to clipboard")

(***************************************************************************)
(* History variables                                                       *)
(***************************************************************************)

RECURSIVE SumPoints(_)
SumPoints(cmds) ==
    IF cmds = << >> THEN 0 ELSE Len(Head(cmds).points) + SumPoints(Tail(cmds))

\* Points held by the log and the in-progress command together.
TotalPoints(s) == SumPoints(s.commands \o s.currentCommand)

\* gesture.clean: a pointerDown arrived with no command in progress and only
\* pointerMove events followed; log0 is the log at that pointerDown, pts the
\* positions of the events so far.  gesture.committed: the operation before was
\* the pointerUp or pointerCancel that ended such a gesture.  gesture.style0:
\* color and size of the tool settings at the pointerDown of the command in
\* progress.  gesture.at: the position of the touch event, when the operation
\* before was a pointerDown or a pointerMove.  gesture.dims: the dimensions asked
\* for and the actions dispatched, when the operation before was
\* setCanvasDimensions.
NoGesture ==
    [ clean |-> FALSE, committed |-> FALSE, log0 |-> << >>, pts |-> << >>,
      style0 |-> Undefined, at |-> Undefined, dims |-> Undefined ]

\* Another canvas operation came between the events of the gesture.
Interleaved(g) == [ NoGesture EXCEPT !.style0 = g.style0 ]

\* The gesture ended.
Ended(g) ==
    IF g.clean
    THEN [ g EXCEPT !.clean = FALSE, !.committed = TRUE, !.style0 = Undefined,
                    !.at = Undefined ]
    ELSE NoGesture

\* undo() ran: right after a committed gesture, what the gesture started from
\* is kept for one more step.
Undone(g) ==
    IF g.committed THEN [ g EXCEPT !.committed = FALSE ] ELSE Interleaved(g)

TouchEvent(p) == [ locationX |-> p.x, locationY |-> p.y ]

(***************************************************************************)
(* The state machine                                                       *)
(***************************************************************************)

\* No path function has been called on its own.
NoCalc == [ fn |-> "none", points |-> << >>, tolerance |-> 0, result |-> << >> ]

Init ==
    /\ state = initialCanvasState
    /\ toolState = initialToolSettings
    /\ lastOp = "init"
    /\ gesture = NoGesture
    /\ calc = NoCalc
    /\ app = initialAppState
    /\ settings = initialSettings
    /\ closure = initialClosure

\* A touch starts, while the log and the command in progress hold fewer than
\* cap points.
PointerDownUpTo(points, ids, cap) ==
    \E p \in points, id \in ids :
        /\ TotalPoints(state) < cap
        /\ state' = onPanResponderGrant(state, toolState, TouchEvent(p), id)
        /\ lastOp' = "pointerDown"
        /\ gesture' = [ clean  |-> (state.currentCommand = Undefined),
                        committed |-> FALSE,
                        log0   |-> IF state.currentCommand = Undefined
                                   THEN state.commands ELSE << >>,
                        pts    |-> IF state.currentCommand = Undefined
                                   THEN << p >> ELSE << >>,
                        style0 |-> Some([color |-> toolState.color,
                                         width |-> toolState.size]),
                        at     |-> Some(p),
                        dims   |-> Undefined ]
        /\ UNCHANGED <<toolState, calc, app, settings, closure>>

PointerDown(points, ids) == PointerDownUpTo(points, ids, MaxPts)

PointerMoveUpTo(points, cap) ==
    \E p \in points :
        /\ TotalPoints(state) < cap
        /\ state' = onPanResponderMove(state, TouchEvent(p))
        /\ lastOp' = "pointerMove"
        /\ gesture' = IF gesture.clean
                      THEN [gesture EXCEPT !.pts = Append(@, p), !.at = Some(p)]
                      ELSE [Interleaved(gesture) EXCEPT !.at = Some(p)]
        /\ UNCHANGED <<toolState, calc, app, settings, closure>>

PointerMove(points) == PointerMoveUpTo(points, MaxPts)

PointerUp ==
    /\ state' = onPanResponderRelease(state)
    /\ lastOp' = "pointerUp"
    /\ gesture' = Ended(gesture)
    /\ UNCHANGED <<toolState, calc, app, settings, closure>>

PointerCancel ==
    /\ state' = onPanResponderTerminate(state)
    /\ lastOp' = "pointerCancel"
    /\ gesture' = Ended(gesture)
    /\ UNCHANGED <<toolState, calc, app, settings, closure>>

Undo ==
    /\ state' = undo(state)
    /\ lastOp' = "undo"
    /\ gesture' = Undone(gesture)
    /\ UNCHANGED <<toolState, calc, app, settings, closure>>

Clear ==
    /\ state' = clearCanvas(state)
    /\ lastOp' = "clear"
    /\ gesture' = NoGesture
    /\ UNCHANGED <<toolState, calc, app, settings, closure>>

\* The effect of Canvas, the one caller of setCanvasDimensions: it runs once
\* after a render, with the function that render took from the context
\* (the function is among its dependencies and is made anew at each render of
\* CanvasProvider).  The call ends at the dispatch; the render comes later.
SetCanvasDimensions ==
    \E d \in Dimensions :
        /\ ~closure.called
        /\ state' = setCanvasDimensions(closure, state, d.width, d.height)
        /\ closure' = [closure EXCEPT !.called = TRUE]
        /\ lastOp' = "setCanvasDimensions"
        /\ gesture' = [ Interleaved(gesture) EXCEPT
                          !.dims = Some([ requested  |-> d,
                                          dispatched |-> setCanvasDimensionsDispatched(
                                                            closure, d.width, d.height) ]) ]
        /\ UNCHANGED <<toolState, calc, app, settings>>

\* CanvasProvider renders again and makes its functions anew over the state
\* the reducer holds; the effect of Canvas is due once more.
ProviderRender ==
    /\ closure # Closure(state)
    /\ closure' = Closure(state)
    /\ lastOp' = "render"
    /\ UNCHANGED <<state, toolState, gesture, calc, app, settings>>

\* The context also hands out dispatch itself; SET_SCALE, SET_OFFSET and REDO
\* have no helper function and can only arrive this way.
Dispatch ==
    \E action \in
          { [type |-> "SET_SCALE", payload |-> [scale |-> sc]] : sc \in Scales }
          \cup { [type |-> "SET_OFFSET", payload |-> o] : o \in Offsets }
          \cup { [type |-> "REDO"] } :
        /\ state' = dispatch(state, action)
        /\ lastOp' = action.type
        /\ gesture' = Interleaved(gesture)
        /\ UNCHANGED <<toolState, calc, app, settings, closure>>

SetTool ==
    \E tool \in ToolTypes :
        /\ toolState' = setTool(toolState, tool)
        /\ lastOp' = "setTool"
        /\ UNCHANGED <<state, gesture, calc, app, settings, closure>>

SetColor ==
    \E c \in Colors :
        /\ toolState' = setColor(toolState, c.r, c.g, c.b, c.a)
        /\ lastOp' = "setColor"
        /\ UNCHANGED <<state, gesture, calc, app, settings, closure>>

SetSize ==
    \E size \in Sizes :
        /\ toolState' = setSize(toolState, size)
        /\ lastOp' = "setSize"
        /\ UNCHANGED <<state, gesture, calc, app, settings, closure>>

SetOpacity ==
    \E opacity \in Opacities :
        /\ toolState' = setOpacity(toolState, opacity)
        /\ lastOp' = "setOpacity"
        /\ UNCHANGED <<state, gesture, calc, app, settings, closure>>

\* The canvas under the initial tool settings: every touch position, every id.
Next ==
    \/ PointerDown(Points, Ids)
    \/ PointerMove(Points)
    \/ PointerUp
    \/ PointerCancel
    \/ Undo
    \/ Clear
    \/ SetCanvasDimensions
    \/ ProviderRender
    \/ Dispatch

Spec == Init /\ [][Next]_vars

\* Gestures while the tool settings change.  What a gesture captures of the tool
\* settings depends neither on where the touch is nor on the id drawn, so both
\* are held to one value here.
NextTool ==
    \/ PointerDown(ToolPoints, ToolIds)
    \/ PointerMove(ToolPoints)
    \/ PointerUp
    \/ PointerCancel
    \/ Undo
    \/ Clear
    \/ SetTool
    \/ SetColor
    \/ SetSize
    \/ SetOpacity

SpecTool == Init /\ [][NextTool]_vars

\* What is drawn: gestures long enough for several commands of two points and
\* more, with a touch position nearer to (0,0) than the default tolerance.
NextRender ==
    \/ PointerDownUpTo(RenderPoints, ToolIds, MaxRenderPts)
    \/ PointerMoveUpTo(RenderPoints, MaxRenderPts)
    \/ PointerUp
    \/ PointerCancel
    \/ Undo
    \/ Clear

SpecRender == Init /\ [][NextRender]_vars

UpdateSettings ==
    \E newSettings \in PartialSettings :
        /\ settings' = updateSettings(settings, newSettings)
        /\ lastOp' = "updateSettings"
        /\ UNCHANGED <<state, toolState, gesture, calc, app, closure>>

ToggleDarkMode ==
    /\ settings' = toggleDarkMode(settings)
    /\ lastOp' = "toggleDarkMode"
    /\ UNCHANGED <<state, toolState, gesture, calc, app, closure>>

ToggleAutoSave ==
    /\ settings' = toggleAutoSave(settings)
    /\ lastOp' = "toggleAutoSave"
    /\ UNCHANGED <<state, toolState, gesture, calc, app, closure>>

SetWebpQuality ==
    \E quality \in Qualities :
        /\ settings' = setWebpQuality(settings, quality)
        /\ lastOp' = "setWebpQuality"
        /\ UNCHANGED <<state, toolState, gesture, calc, app, closure>>

\* The settings on their own.
NextSettings ==
    \/ UpdateSettings
    \/ ToggleDarkMode
    \/ ToggleAutoSave
    \/ SetWebpQuality

SpecSettings == Init /\ [][NextSettings]_vars

\* The capture, save and copy functions on their own, under every behaviour of
\* the platform calls they make.  calc.made: the platform calls made so far;
\* calc.result: what the promise settled with, once it has.
InitIo ==
    /\ state = initialCanvasState
    /\ toolState = initialToolSettings
    /\ lastOp = "init"
    /\ gesture = NoGesture
    /\ app = initialAppState
    /\ settings = initialSettings
    /\ closure = initialClosure
    /\ calc \in { [ fn |-> "input", of |-> "captureCanvasAsPng", env |-> env,
                     result |-> << >>, made |-> << >> ] : env \in CaptureEnvs }
               \cup { [ fn |-> "input", of |-> "saveToGallery", env |-> env,
                        result |-> << >>, made |-> << >> ] : env \in SaveEnvs }
               \cup { [ fn |-> "input", of |-> "copyCanvasToClipboard", env |-> env,
                        result |-> << >>, made |-> << >> ] : env \in CopyEnvs }

\* The calls a function awaits: it makes the call and gives the thread back
\* until the promise settles; likewise at the await of the promise of an async
\* function of these modules.  toDataURL and link.click return at once.
AwaitedCalls ==
    { "setTimeout", "captureRef", "requestPermissionsAsync", "writeAsStringAsync",
      "createAssetAsync", "getAlbumsAsync", "addAssetsToAlbumAsync", "createAlbumAsync",
      "fetch", "blob", "clipboard.write", "setStringAsync", "isAvailableAsync",
      "shareAsync", AwaitSetClipboardContent, AwaitCapture, AwaitCopyImage }

\* The place of the first awaited call after place k, Len(calls) + 1 if none.
NextAwait(calls, k) ==
    LET later == { j \in (k + 1)..Len(calls) : calls[j] \in AwaitedCalls }
    IN  IF later = {}
        THEN Len(calls) + 1
        ELSE CHOOSE j \in later : \A other \in later : j <= other

\* The whole run of the function of c under the environment of c.
RunOf(c) ==
    CASE c.of = "captureCanvasAsPng" -> captureCanvasAsPng(c.env)
      [] c.of = "saveToGallery" -> saveToGallery(c.env.imageUri, c.env)
      [] c.of = "copyCanvasToClipboard" -> copyCanvasToClipboard(c.env)

\* The function runs on from the calls it has made to its next await, where it
\* is suspended, or to its end, where its promise settles with the result.
RunOn(c) ==
    LET run == RunOf(c)
        j   == NextAwait(run.calls, Len(c.made))
    IN  IF j <= Len(run.calls)
        THEN [ c EXCEPT !.fn = "awaiting", !.made = SubSeq(run.calls, 1, j) ]
        ELSE [ c EXCEPT !.fn = c.of, !.made = run.calls, !.result = run ]

CaptureCanvasAsPngCall ==
    /\ calc.fn = "input" /\ calc.of = "captureCanvasAsPng"
    /\ calc' = RunOn(calc)
    /\ UNCHANGED <<state, toolState, lastOp, gesture, app, settings, closure>>

SaveToGalleryCall ==
    /\ calc.fn = "input" /\ calc.of = "saveToGallery"
    /\ calc' = RunOn(calc)
    /\ UNCHANGED <<state, toolState, lastOp, gesture, app, settings, closure>>

CopyCanvasToClipboardCall ==
    /\ calc.fn = "input" /\ calc.of = "copyCanvasToClipboard"
    /\ calc' = RunOn(calc)
    /\ UNCHANGED <<state, toolState, lastOp, gesture, app, settings, closure>>

\* The promise a function is suspended at settles and the function runs on.
AwaitSettles ==
    /\ calc.fn = "awaiting"
    /\ calc' = RunOn(calc)
    /\ UNCHANGED <<state, toolState, lastOp, gesture, app, settings, closure>>

NextIo ==
    \/ CaptureCanvasAsPngCall
    \/ SaveToGalleryCall
    \/ CopyCanvasToClipboardCall
    \/ AwaitSettles

SpecIo == InitIo /\ [][NextIo]_vars

\* The save and copy buttons.  A press event runs the handler of the last
\* render up to its first await, and the state update the handler made is
\* rendered before the event is over; an update made after an await is
\* rendered by a later step.  The platform settles the promise a handler
\* awaits in one step, and the handler goes on with the settled value in
\* another.
InitApp ==
    /\ state = initialCanvasState
    /\ toolState = initialToolSettings
    /\ lastOp = "init"
    /\ gesture = NoGesture
    /\ calc = NoCalc
    /\ settings = initialSettings
    /\ closure = initialClosure
    /\ app \in { [initialAppState EXCEPT !.platform = platform] : platform \in Platforms }

\* The end of a press event: the render of what the handler updated; no render
\* when the button was disabled or the handler returned at its guard.
Pressed(after) == IF after = app THEN app ELSE Render(after)

SavePress ==
    /\ app.rendered \/ Len(app.attempts) < MaxAttempts
    /\ \E current \in BOOLEAN : app' = Pressed(handleSavePress(app, current))
    /\ lastOp' = "savePress"
    /\ UNCHANGED <<state, toolState, gesture, calc, settings, closure>>

CopyPress ==
    /\ app.rendered \/ Len(app.attempts) < MaxAttempts
    /\ \E current \in BOOLEAN : app' = Pressed(handleCopyToClipboardPress(app, current))
    /\ lastOp' = "copyPress"
    /\ UNCHANGED <<state, toolState, gesture, calc, settings, closure>>

\* The promise of captureCanvasAsPng settles, with what the function returns
\* under the behaviour of the platform.
CaptureSettles ==
    /\ \E i \in InFlight(app) :
          /\ app.attempts[i].pc = "captureCanvasAsPng"
          /\ app.attempts[i].settled = Undefined
          /\ \E value \in { captureCanvasAsPng(env).value :
                             env \in { e \in CaptureEnvs :
                                         /\ e.platform = app.platform
                                         /\ e.canvasRef \in {"view", "htmlCanvas"} } } :
                app' = [app EXCEPT !.attempts[i].settled = Some(value)]
    /\ lastOp' = "captureSettles"
    /\ UNCHANGED <<state, toolState, gesture, calc, settings, closure>>

\* handleSavePress goes on after await captureCanvasAsPng(canvasRef).
CaptureDone ==
    /\ \E i \in InFlight(app) :
          /\ app.attempts[i].pc = "captureCanvasAsPng"
          /\ app.attempts[i].settled # Undefined
          /\ app' = handleSavePressCaptured(app, i, app.attempts[i].settled[1])
    /\ lastOp' = "captureDone"
    /\ UNCHANGED <<state, toolState, gesture, calc, settings, closure>>

\* The promise of saveToGallery(pngUri) settles.
SaveSettles ==
    /\ \E i \in InFlight(app) :
          /\ app.attempts[i].pc = "saveToGallery"
          /\ app.attempts[i].settled = Undefined
          /\ \E value \in { saveToGallery(env.imageUri, env).value :
                             env \in { e \in SaveEnvs :
                                         /\ e.platform = app.platform
                                         /\ Some(e.imageUri) = app.attempts[i].pngUri[1] } } :
                app' = [app EXCEPT !.attempts[i].settled = Some(value)]
    /\ lastOp' = "saveSettles"
    /\ UNCHANGED <<state, toolState, gesture, calc, settings, closure>>

\* handleSavePress goes on after await saveToGallery(pngUri).
SaveDone ==
    /\ \E i \in InFlight(app) :
          /\ app.attempts[i].pc = "saveToGallery"
          /\ app.attempts[i].settled # Undefined
          /\ app' = handleSavePressSaved(app, i, app.attempts[i].settled[1])
    /\ lastOp' = "saveDone"
    /\ UNCHANGED <<state, toolState, gesture, calc, settings, closure>>

\* The promise of copyCanvasToClipboard settles; captured is what the capture
\* inside it returned.
CopySettles ==
    /\ \E i \in InFlight(app) :
          /\ app.attempts[i].pc = "copyCanvasToClipboard"
          /\ app.attempts[i].settled = Undefined
          /\ \E value \in { [ captured |-> captureCanvasAsPng(env).value,
                               value    |-> copyCanvasToClipboard(env).value ] :
                             env \in { e \in CopyEnvs : /\ e.platform = app.platform
                                                        /\ e.canvasRef = "view" } } :
                app' = [app EXCEPT !.attempts[i].settled = Some(value)]
    /\ lastOp' = "copySettles"
    /\ UNCHANGED <<state, toolState, gesture, calc, settings, closure>>

\* handleCopyToClipboardPress goes on after await copyCanvasToClipboard.
CopyDone ==
    /\ \E i \in InFlight(app) :
          /\ app.attempts[i].pc = "copyCanvasToClipboard"
          /\ app.attempts[i].settled # Undefined
          /\ app' = handleCopyToClipboardPressCopied(
                        app, i, app.attempts[i].settled[1].captured,
                        app.attempts[i].settled[1].value)
    /\ lastOp' = "copyDone"
    /\ UNCHANGED <<state, toolState, gesture, calc, settings, closure>>

\* AppContent renders after the setIsProcessing(false) of a finally that ran
\* after an await.
Rerender ==
    /\ app.rendered # app.isProcessing
    /\ app' = Render(app)
    /\ lastOp' = "render"
    /\ UNCHANGED <<state, toolState, gesture, calc, settings, closure>>

NextApp ==
    \/ SavePress
    \/ CopyPress
    \/ CaptureSettles
    \/ CaptureDone
    \/ SaveSettles
    \/ SaveDone
    \/ CopySettles
    \/ CopyDone
    \/ Rerender

SpecApp == InitApp /\ [][NextApp]_vars

\* What the scheduling of the code gives: a handler whose awaited promise has
\* settled runs on, and a changed isProcessing is rendered.  When the platform
\* settles a promise is not in the hands of the code.
SpecAppFair ==
    /\ SpecApp
    /\ WF_vars(CaptureDone)
    /\ WF_vars(SaveDone)
    /\ WF_vars(CopyDone)
    /\ WF_vars(Rerender)

\* The picker is opened, a size chosen and applied.
BrushSizeApply ==
    \E size \in PickerSizes(toolState) :
        /\ toolState' = handleApply(toolState, size)
        /\ lastOp' = "setSize"
        /\ UNCHANGED <<state, gesture, calc, app, settings, closure>>

\* Taps under every size the picker can apply.
NextSize ==
    \/ PointerDown(ToolPoints, ToolIds)
    \/ PointerUp
    \/ Clear
    \/ BrushSizeApply

SpecSize == Init /\ [][NextSize]_vars

\* What is drawn while color and size of the tool settings change between
\* gestures and within them.
NextStyle ==
    \/ PointerDownUpTo(StylePoints, ToolIds, MaxStylePts)
    \/ PointerMoveUpTo(ToolPoints, MaxStylePts)
    \/ PointerUp
    \/ SetColor
    \/ SetSize

SpecStyle == Init /\ [][NextStyle]_vars

\* The path functions on their own: any array of up to MaxLen points, any
\* tolerance.  calc.refs: the objects of calc.points; calc.kept: the objects of
\* calc.result.
RECURSIVE SeqsUpTo(_, _)
SeqsUpTo(S, n) ==
    IF n = 0
    THEN { << >> }
    ELSE LET shorter == SeqsUpTo(S, n - 1)
         IN  shorter \cup { Append(q, e) : q \in shorter, e \in S }

\* The ways the places of an array can share objects: each place holds an object
\* of its own (its ref is its place) or the object of an earlier place, whose
\* value it then has.
RECURSIVE RefsOf(_)
RefsOf(points) ==
    IF points = << >>
    THEN { << >> }
    ELSE LET n == Len(points)
         IN  UNION { { Append(refs, r) :
                         r \in {n} \cup { j \in 1..(n - 1) : /\ refs[j] = j
                                                             /\ points[j] = points[n] } } :
                     refs \in RefsOf(SubSeq(points, 1, n - 1)) }

InitPath ==
    /\ state = initialCanvasState
    /\ toolState = initialToolSettings
    /\ lastOp = "init"
    /\ app = initialAppState
    /\ settings = initialSettings
    /\ closure = initialClosure
    /\ gesture = NoGesture
    /\ calc \in UNION { { [ fn |-> "input", points |-> pts, refs |-> refs,
                               tolerance |-> tol, result |-> << >>, kept |-> << >> ] :
                             refs \in RefsOf(pts), tol \in Tolerances } :
                           pts \in SeqsUpTo(PathPoints, MaxLen) }

SimplifyPathCall ==
    /\ calc.fn = "input"
    /\ LET places == simplifyPathPlaces(calc.points, calc.refs, calc.tolerance)
       IN  calc' = [ calc EXCEPT
                       !.fn = "simplifyPath",
                       !.result = simplifyPath(calc.points, calc.refs, calc.tolerance),
                       !.kept = [k \in 1..Len(places) |-> calc.refs[places[k]]] ]
    /\ UNCHANGED <<state, toolState, lastOp, gesture, app, settings, closure>>

CreateSmoothPathCall ==
    /\ calc.fn = "input"
    /\ calc' = [ calc EXCEPT !.fn = "createSmoothPath",
                             !.result = createSmoothPath(calc.points) ]
    /\ UNCHANGED <<state, toolState, lastOp, gesture, app, settings, closure>>

NextPath ==
    \/ SimplifyPathCall
    \/ CreateSmoothPathCall

SpecPath == InitPath /\ [][NextPath]_vars

(***************************************************************************)
(* Properties                                                              *)
(***************************************************************************)

P00 == [x |-> 0, y |-> 0]

P10 == [x |-> 10, y |-> 0]

Last(seq) == seq[Len(seq)]

Front(seq) == SubSeq(seq, 1, Len(seq) - 1)

Drawing(s) == s.currentCommand # Undefined

\* C1: a gesture pointerDown(p0), pointerMove(p1), ..., pointerMove(pk),
\* pointerUp() that starts with no command in progress and has no other canvas
\* operation in between leaves the log as it was at the pointerDown plus one
\* entry at the end, whose points are p0, ..., pk in order, and no command in
\* progress.
C1_GestureAppendsOneEntry ==
    [][ (lastOp' = "pointerUp" /\ gesture.clean) =>
          /\ Len(state'.commands) = Len(gesture.log0) + 1
          /\ Front(state'.commands) = gesture.log0
          /\ Last(state'.commands).points = gesture.pts
          /\ state'.currentCommand = Undefined ]_vars

C1_Witness ==
    /\ lastOp = "pointerUp"
    /\ gesture.committed
    /\ Len(gesture.log0) = 1
    /\ gesture.pts = << P10, P00 >>

\* C2: undo() removes exactly the last entry of a non-empty log and keeps the
\* others in order; on an empty log it changes nothing; the command in progress
\* is the same before and after.
C2_UndoRemovesLast ==
    [][ lastOp' = "undo" =>
          /\ IF Len(state.commands) = 0
             THEN state' = state
             ELSE state'.commands = Front(state.commands)
          /\ state'.currentCommand = state.currentCommand ]_vars

C2_Witness ==
    /\ lastOp = "undo"
    /\ Len(state.commands) = 1
    /\ Drawing(state)

\* C3: after clear(), from whatever state, the log is empty and there is no
\* command in progress.
C3_ClearEmpties ==
    lastOp = "clear" => (state.commands = << >> /\ state.currentCommand = Undefined)

C3_Witness ==
    /\ lastOp = "clear"
    /\ state.commands = << >>
    /\ state.currentCommand = Undefined
    /\ state.dimensions.width = 100

\* C4: the style of the command in progress is the color and size the tool
\* settings had at its pointerDown, whatever tool settings change and whatever
\* pointerMove comes after, and the entry committed at pointerUp carries that
\* color and width.
C4_StyleFixedAtPointerDown ==
    /\ [](Drawing(state) =>
            /\ gesture.style0 # Undefined
            /\ state.currentCommand[1].style = gesture.style0[1])
    /\ [][ (lastOp' = "pointerUp" /\ Drawing(state)) =>
              Last(state'.commands).style = gesture.style0[1] ]_vars

C4_Witness ==
    /\ lastOp = "pointerUp"
    /\ gesture.committed
    /\ Len(gesture.pts) >= 2
    /\ Last(state.commands).style.color # toolState.color
    /\ Last(state.commands).style.width # toolState.size

\* C5: pointerDown creates a command of kind erase when the eraser is the active
\* tool and of kind stroke when the pen is.
C5_KindFollowsTool ==
    [][ lastOp' = "pointerDown" =>
          /\ toolState.type = "eraser" => state'.currentCommand[1].type = "erase"
          /\ toolState.type = "pen" => state'.currentCommand[1].type = "stroke" ]_vars

\* C6: an entry of the log never changes while it is there: pointerUp and
\* pointerCancel append the command in progress at the end as it is, undo
\* removes the last entry, clear empties the log, and every other operation,
\* pointerDown and pointerMove among them, leaves the log as it is.
C6_LogEntriesImmutable ==
    [][ CASE lastOp' \in {"pointerUp", "pointerCancel"} ->
               state'.commands = state.commands \o state.currentCommand
          [] lastOp' = "undo" ->
               state'.commands = Front(state.commands)
          [] lastOp' = "clear" ->
               state'.commands = << >>
          [] OTHER ->
               state'.commands = state.commands ]_vars

C6_Witness ==
    /\ lastOp = "pointerMove"
    /\ Len(state.commands) = 1
    /\ Drawing(state)
    /\ Len(state.currentCommand[1].points) = 2

\* C7: pointerMove, pointerUp and pointerCancel with no command in progress
\* leave log, command in progress, scale, offset and dimensions as they are.
C7_IdleEventsAreNoOps ==
    [][ (lastOp' \in {"pointerMove", "pointerUp", "pointerCancel"}
         /\ ~Drawing(state)) => state' = state ]_vars

C7_Witness ==
    /\ lastOp = "pointerMove"
    /\ ~Drawing(state)
    /\ Len(state.commands) = 1
    /\ state.scale = 2

\* C8: pointerCancel does what pointerUp does: with a command in progress it
\* appends it, with the points captured so far, at the end of the log and
\* leaves no command in progress; with none it changes nothing.
C8_CancelIsPointerUp ==
    [][ lastOp' = "pointerCancel" =>
          /\ state' = onPanResponderRelease(state)
          /\ IF Drawing(state)
             THEN /\ state'.commands = Append(state.commands, state.currentCommand[1])
                  /\ state'.currentCommand = Undefined
             ELSE state' = state ]_vars

C8_Witness ==
    /\ lastOp = "pointerCancel"
    /\ gesture.committed
    /\ Len(gesture.pts) = 2
    /\ Len(state.commands) = 2

\* C9: the ids of the commands of the log and of the command in progress are
\* pairwise distinct.
C9_IdsDistinct ==
    LET all == state.commands \o state.currentCommand
    IN  \A i, j \in 1..Len(all) : i # j => all[i].id # all[j].id

\* C10: a complete gesture from a state with no command in progress followed by
\* one undo() gives back the log the gesture started from; from the empty log,
\* pointerDown({0,0}) with style {black, 5}, pointerMove({10,0}), pointerUp()
\* gives a log of one entry with these two points and that style, and undo()
\* then gives the empty log.
C10_GestureThenUndo ==
    /\ []((gesture.committed /\ lastOp = "pointerUp" /\ gesture.log0 = << >>
           /\ gesture.pts = << P00, P10 >>) =>
            /\ Len(state.commands) = 1
            /\ state.commands[1].points = << P00, P10 >>
            /\ state.commands[1].style = [color |-> Black, width |-> 5])
    /\ [][ (lastOp' = "undo" /\ gesture.committed /\ lastOp = "pointerUp") =>
              state'.commands = gesture.log0 ]_vars

C10_Witness ==
    /\ lastOp = "undo"
    /\ gesture.log0 = << >>
    /\ gesture.pts = << P00, P10 >>
    /\ state.commands = << >>

\* The squared distance of two points.
SquaredDistance(p, q) == (p.x - q.x) * (p.x - q.x) + (p.y - q.y) * (p.y - q.y)

\* Two points are at least a tolerance >= 0 apart.
Apart(p, q, tolerance) == SquaredDistance(p, q) >= tolerance * tolerance

\* The fraction r is n / d.
IsRat(r, n, d) == r.den > 0 /\ r.num * d = n * r.den

Max(S) == CHOOSE m \in S : \A e \in S : e <= m

\* The elements of points at the places in R, in the order of the array.
RECURSIVE PointsAt(_, _, _)
PointsAt(points, R, i) ==
    IF i > Len(points)
    THEN << >>
    ELSE IF i \in R
         THEN << points[i] >> \o PointsAt(points, R, i + 1)
         ELSE PointsAt(points, R, i + 1)

\* R is the greedy selection of places of points: the first, and each later one
\* whose point is at least tolerance away from the point at the nearest place
\* of R before it.
IsGreedySelection(points, tolerance, R) ==
    /\ 1 \in R
    /\ \A i \in 2..Len(points) :
          i \in R <=> Apart(points[i], points[Max({ j \in R : j < i })], tolerance)

\* C11: for a non-empty array and any tolerance, simplifyPath returns an array
\* whose first element is the first point of the input, whose last element is
\* its last point, and which is no longer than the input.
C11_SimplifyKeepsEnds ==
    (calc.fn = "simplifyPath" /\ Len(calc.points) >= 1) =>
        /\ Len(calc.result) >= 1
        /\ calc.result[1] = calc.points[1]
        /\ Last(calc.result) = Last(calc.points)
        /\ Len(calc.result) <= Len(calc.points)

C11_Witness ==
    /\ calc.fn = "simplifyPath"
    /\ calc.tolerance = 2
    /\ calc.points = << [x |-> 0, y |-> 0], [x |-> 1, y |-> 1],
                        [x |-> 10, y |-> 0], [x |-> 10, y |-> 0] >>
    /\ calc.result = << [x |-> 0, y |-> 0], [x |-> 10, y |-> 0], [x |-> 10, y |-> 0] >>

\* C12: for an array whose elements are objects of their own, as are the arrays
\* of points the reducer builds and Canvas passes, simplifyPath returns the
\* greedy selection: the first point, then each later point at least tolerance
\* away from the point kept last before it, and the last point of the input if
\* it was not kept, in the order of the input; so all neighbours in the result
\* but the last two are at least tolerance apart.
C12_SimplifyIsGreedy ==
    (/\ calc.fn = "simplifyPath"
     /\ Len(calc.points) >= 1
     /\ calc.refs = Distinct(calc.points)) =>
        /\ \E R \in SUBSET (1..Len(calc.points)) :
              /\ IsGreedySelection(calc.points, calc.tolerance, R)
              /\ calc.result = PointsAt(calc.points, R \cup { Len(calc.points) }, 1)
        /\ \A k \in 1..(Len(calc.result) - 2) :
              Apart(calc.result[k], calc.result[k + 1], calc.tolerance)

\* The second point is too near to the first, the third is kept, the last is
\* added after the loop.
C12_Witness ==
    /\ calc.fn = "simplifyPath"
    /\ calc.tolerance = 2
    /\ calc.refs = << 1, 2, 3, 4 >>
    /\ calc.points = << [x |-> 0, y |-> 0], [x |-> 1, y |-> 1],
                        [x |-> 2, y |-> 0], [x |-> 10, y |-> 0] >>
    /\ calc.result = << [x |-> 0, y |-> 0], [x |-> 2, y |-> 0], [x |-> 10, y |-> 0] >>

\* C13: simplifyPath returns an input of 0, 1 or 2 points as it is, also when
\* the two points are nearer than the tolerance.
C13_SimplifyShortIsNoOp ==
    (calc.fn = "simplifyPath" /\ Len(calc.points) <= 2) => calc.result = calc.points

C13_Witness ==
    /\ calc.fn = "simplifyPath"
    /\ calc.tolerance = 3
    /\ calc.points = << [x |-> 1, y |-> 1], [x |-> 1, y |-> 1] >>
    /\ Len(calc.result) = 2

\* C14: createSmoothPath returns the empty curve for 0 or 1 points, and for 2
\* points a curve that starts at the first and is one straight segment to the
\* second.
C14_SmoothShortInputs ==
    calc.fn = "createSmoothPath" =>
        /\ Len(calc.points) <= 1 => calc.result = << >>
        /\ Len(calc.points) = 2 =>
              /\ Len(calc.result) = 2
              /\ calc.result[1][1] = "M"
              /\ IsRat(calc.result[1][2], calc.points[1].x, 1)
              /\ IsRat(calc.result[1][3], calc.points[1].y, 1)
              /\ calc.result[2][1] = "L"
              /\ IsRat(calc.result[2][2], calc.points[2].x, 1)
              /\ IsRat(calc.result[2][3], calc.points[2].y, 1)

C14_Witness ==
    /\ calc.fn = "createSmoothPath"
    /\ calc.points = << [x |-> 1, y |-> 1], [x |-> 10, y |-> 0] >>
    /\ Len(calc.result) = 2

\* C15: for 3 or more points the curve of createSmoothPath starts at the first
\* point and its last segment is a straight line that ends at the last point.
C15_SmoothEndsAtLastPoint ==
    (calc.fn = "createSmoothPath" /\ Len(calc.points) >= 3) =>
        /\ calc.result[1][1] = "M"
        /\ IsRat(calc.result[1][2], calc.points[1].x, 1)
        /\ IsRat(calc.result[1][3], calc.points[1].y, 1)
        /\ Last(calc.result)[1] = "L"
        /\ IsRat(Last(calc.result)[2], Last(calc.points).x, 1)
        /\ IsRat(Last(calc.result)[3], Last(calc.points).y, 1)

C15_Witness ==
    /\ calc.fn = "createSmoothPath"
    /\ Len(calc.points) = 4
    /\ calc.points[3] = [x |-> 1, y |-> 1]
    /\ calc.points[4] = [x |-> 10, y |-> 0]
    /\ Len(calc.result) = 5

\* C16: for n >= 3 points p0 .. p(n-1), between the start and the last line
\* createSmoothPath gives one quadratic segment with control point p0 that ends
\* at the midpoint of p0 and p1, and then, for i = 1 .. n-2 in this order, one
\* quadratic segment with control point pi + (p(i+1) - p(i-1)) / 6 that ends at
\* the midpoint of pi and p(i+1).
C16_SmoothQuadratics ==
    (calc.fn = "createSmoothPath" /\ Len(calc.points) >= 3) =>
        LET pts == calc.points
            n   == Len(pts)
        IN  /\ Len(calc.result) = n + 1
            /\ calc.result[2][1] = "Q"
            /\ IsRat(calc.result[2][2], pts[1].x, 1)
            /\ IsRat(calc.result[2][3], pts[1].y, 1)
            /\ IsRat(calc.result[2][4], pts[1].x + pts[2].x, 2)
            /\ IsRat(calc.result[2][5], pts[1].y + pts[2].y, 2)
            /\ \A i \in 1..(n - 2) :
                  LET seg == calc.result[i + 2]
                  IN  /\ seg[1] = "Q"
                      /\ IsRat(seg[2], 6 * pts[i + 1].x + pts[i + 2].x - pts[i].x, 6)
                      /\ IsRat(seg[3], 6 * pts[i + 1].y + pts[i + 2].y - pts[i].y, 6)
                      /\ IsRat(seg[4], pts[i + 1].x + pts[i + 2].x, 2)
                      /\ IsRat(seg[5], pts[i + 1].y + pts[i + 2].y, 2)

C16_Witness ==
    /\ calc.fn = "createSmoothPath"
    /\ calc.points = << [x |-> 0, y |-> 0], [x |-> 1, y |-> 1],
                        [x |-> 10, y |-> 0], [x |-> 2, y |-> 0] >>
    /\ calc.result[3] = << "Q", [num |-> 8, den |-> 3], [num |-> 1, den |-> 1],
                                [num |-> 11, den |-> 2], [num |-> 1, den |-> 2] >>
    /\ calc.result[4][2] = [num |-> 61, den |-> 6]

\* A command is drawn: it has two points or more.
Drawn(command) == Len(command.points) >= 2

\* How many of the first i entries of the log are drawn.
Rank(s, i) == Cardinality({ j \in 1..i : Drawn(s.commands[j]) })

CurrentDrawn(s) == Drawing(s) /\ Drawn(s.currentCommand[1])

\* C17: what is rendered lists the primitives of the log entries in the order of
\* the log, and after all of them the primitive of the command in progress, if
\* it has one.
C17_RenderInLogOrder ==
    LET out == CanvasRender(state)
    IN  /\ \A i \in 1..Len(state.commands) :
              Drawn(state.commands[i]) =>
                  /\ Rank(state, i) <= Len(out)
                  /\ out[Rank(state, i)] = renderPath(state.commands[i])[1]
        /\ CurrentDrawn(state) =>
              /\ Len(out) = Rank(state, Len(state.commands)) + 1
              /\ Last(out) = renderCurrentPath(state)[1]
              /\ Last(out).key = Undefined

C17_Witness ==
    LET out == CanvasRender(state)
    IN  /\ Len(state.commands) = 2
        /\ CurrentDrawn(state)
        /\ Len(out) = 3
        /\ out[1].d # out[2].d
        /\ out[1].d # out[3].d
        /\ out[2].d # out[3].d

\* C18: a command with fewer than 2 points, or without points or style as a
\* clear entry is, gives no primitive; each entry of the log with 2 points or
\* more gives one; so the primitives are as many as the entries of the log with
\* 2 points or more, and one more if the command in progress has 2 or more.
C18_DegenerateCommandsRenderNothing ==
    /\ \A i \in 1..Len(state.commands) :
          Len(renderPath(state.commands[i])) = IF Drawn(state.commands[i]) THEN 1 ELSE 0
    /\ Len(renderCurrentPath(state)) = IF CurrentDrawn(state) THEN 1 ELSE 0
    /\ \A id \in Ids :
          /\ renderPath([id |-> id, type |-> "clear"]) = Undefined
          /\ renderPath([id |-> id, type |-> "stroke", points |-> << P00, P10 >>])
               = Undefined
    /\ Len(CanvasRender(state))
         = Rank(state, Len(state.commands)) + (IF CurrentDrawn(state) THEN 1 ELSE 0)

C18_Witness ==
    /\ Len(state.commands) = 2
    /\ Len(state.commands[1].points) = 1
    /\ Len(state.commands[2].points) = 3
    /\ Drawing(state)
    /\ Len(state.currentCommand[1].points) = 1
    /\ Len(CanvasRender(state)) = 1

\* C19: the style taken at pointerDown records the opacity of the tool settings
\* at that instant, in the command in progress and in the entry committed
\* later.
C19_StyleRecordsOpacity ==
    [][ lastOp' = "pointerDown" =>
          LET style == state'.currentCommand[1].style
          IN  /\ "opacity" \in DOMAIN style
              /\ style.opacity = toolState.opacity ]_vars

\* Every action the reducer can be handed.
CanvasActions ==
    { [ type    |-> "START_STROKE",
        payload |-> [ id |-> id, point |-> p, style |-> [color |-> c, width |-> w] ] ] :
          id \in Ids, p \in Points, c \in Colors, w \in Sizes }
    \cup { [type |-> "ADD_POINT", payload |-> [point |-> p]] : p \in Points }
    \cup { [type |-> ty] : ty \in {"END_STROKE", "CLEAR_CANVAS", "UNDO", "REDO"} }
    \cup { [type |-> "SET_SCALE", payload |-> [scale |-> sc]] : sc \in Scales }
    \cup { [type |-> "SET_OFFSET", payload |-> o] : o \in Offsets }
    \cup { [type |-> "SET_DIMENSIONS", payload |-> d] : d \in Dimensions }

\* A DrawCommand as the reducer builds it.
IsDrawCommand(c) ==
    /\ DOMAIN c = {"id", "type", "points", "style"}
    /\ c.type \in {"stroke", "erase", "clear"}
    /\ Len(c.points) >= 1
    /\ DOMAIN c.style = {"color", "width"}

IsCanvasState(s) ==
    /\ DOMAIN s = {"commands", "currentCommand", "scale", "offset", "dimensions"}
    /\ \A i \in 1..Len(s.commands) : IsDrawCommand(s.commands[i])
    /\ Len(s.currentCommand) <= 1
    /\ \A i \in 1..Len(s.currentCommand) : IsDrawCommand(s.currentCommand[i])
    /\ s.scale \in Int
    /\ DOMAIN s.offset = {"x", "y"}
    /\ DOMAIN s.dimensions = {"width", "height"}

\* C20: the reducer is total: whatever action it is handed in a reachable state
\* it returns a well-formed state, and rendering a reachable state gives a list
\* of path elements.
C20_ReducerTotal ==
    /\ \A action \in CanvasActions : IsCanvasState(canvasReducer(state, action))
    /\ LET out == CanvasRender(state)
       IN  \A k \in 1..Len(out) :
               /\ Len(out[k].d) >= 2
               /\ out[k].fill = "none"

C20_Witness ==
    /\ lastOp = "REDO"
    /\ Len(state.commands) = 1
    /\ Drawing(state)
    /\ Len(CanvasRender(state)) = 1
    /\ state.scale = 2

\* C21: in every reachable state the backdrop of what is rendered is
\* transparent: the container's background color is transparent and every path
\* is stroked, not filled.
C21_BackdropTransparent ==
    \A props \in Dimensions :
        LET view == CanvasView(state, props)
        IN  /\ view.style.backgroundColor = "transparent"
            /\ \A k \in 1..Len(view.children) : view.children[k].fill = "none"

C21_Witness ==
    /\ Len(state.commands) = 1
    /\ CurrentDrawn(state)
    /\ state.dimensions = [width |-> 100, height |-> 200]
    /\ Len(CanvasView(state, state.dimensions).children) = 1

\* C22: at the start the log is empty and no command is in progress; there is
\* never more than one command in progress; a command in progress is a stroke
\* with a style and at least one point; pointerDown makes its points the
\* position of that event alone, and later steps that keep a command in progress
\* keep its first point; a pointerMove while drawing appends its position and
\* nothing else.
C22_InProgressCommand ==
    /\ state.commands = << >> /\ state.currentCommand = Undefined
    /\ [](/\ Len(state.currentCommand) <= 1
          /\ Drawing(state) =>
               /\ state.currentCommand[1].type = "stroke"
               /\ "style" \in DOMAIN state.currentCommand[1]
               /\ Len(state.currentCommand[1].points) >= 1)
    /\ [][ /\ lastOp' = "pointerDown" =>
                /\ Drawing(state')
                /\ state'.currentCommand[1].points
                     = << [x |-> gesture'.at[1].x, y |-> gesture'.at[1].y] >>
           /\ (lastOp' # "pointerDown" /\ Drawing(state) /\ Drawing(state')) =>
                /\ state'.currentCommand[1].points[1] = state.currentCommand[1].points[1]
                /\ state'.currentCommand[1].id = state.currentCommand[1].id
           /\ (lastOp' = "pointerMove" /\ Drawing(state)) =>
                /\ Drawing(state')
                /\ state'.currentCommand[1]
                     = [ state.currentCommand[1] EXCEPT
                           !.points = Append(@, gesture'.at[1]) ] ]_vars

C22_Witness ==
    /\ lastOp = "pointerMove"
    /\ Drawing(state)
    /\ state.currentCommand[1].points = << P10, P00, P10 >>
    /\ gesture.at = Some(P10)

\* C23: a pointerDown while a command is in progress leaves the log as it is and
\* puts in place of that command a new one of one point, the position of the
\* event, with the style of the tool settings: nothing of the earlier command is
\* left in the state.
C23_SecondPointerDownReplaces ==
    [][ (lastOp' = "pointerDown" /\ Drawing(state)) =>
          /\ state'.commands = state.commands
          /\ Drawing(state')
          /\ state'.currentCommand[1].points = << gesture'.at[1] >>
          /\ state'.currentCommand[1].style
               = [color |-> toolState.color, width |-> toolState.size]
          /\ DOMAIN state'.currentCommand[1] = {"id", "type", "points", "style"}
          /\ TotalPoints(state') = SumPoints(state.commands) + 1 ]_vars

C23_Witness ==
    /\ lastOp = "pointerDown"
    /\ ~gesture.clean
    /\ Len(state.commands) = 1
    /\ state.currentCommand[1].points = << P10 >>
    /\ state.commands[1].points = << P00 >>

\* What the presentation layer is handed for each path: geometry, stroke color
\* and stroke width.
Primitives(s) ==
    LET out == CanvasRender(s)
    IN  [ k \in 1..Len(out) |->
            [ geometry    |-> out[k].d,
              strokeColor |-> out[k].stroke,
              strokeWidth |-> out[k].strokeWidth ] ]

\* C24: a pointerUp or pointerCancel while drawing leaves the list of rendered
\* primitives (geometry, stroke color, stroke width) as it was before it.
C24_CommitKeepsPicture ==
    [][ (lastOp' \in {"pointerUp", "pointerCancel"} /\ Drawing(state)) =>
          Primitives(state') = Primitives(state) ]_vars

C24_Witness ==
    /\ lastOp \in {"pointerUp", "pointerCancel"}
    /\ gesture.committed
    /\ Len(state.commands) = 2
    /\ Last(state.commands).points = gesture.pts
    /\ Len(gesture.pts) = 4
    /\ Len(simplifyPath(gesture.pts, Distinct(gesture.pts), DefaultTolerance)) = 3
    /\ Len(Primitives(state)) = 2

\* C25: each rendered primitive has the stroke color and stroke width of the
\* style of its own command, and as geometry the smoothed simplified path of all
\* the points of that command.
C25_PrimitiveOfOwnCommand ==
    LET out == Primitives(state)
        Of(command) ==
            [ geometry    |-> createSmoothPath(simplifyPath(command.points, Distinct(command.points), DefaultTolerance)),
              strokeColor |-> rgbToString(command.style.color),
              strokeWidth |-> command.style.width ]
    IN  /\ \A i \in 1..Len(state.commands) :
              Drawn(state.commands[i]) =>
                  out[Rank(state, i)] = Of(state.commands[i])
        /\ CurrentDrawn(state) => Last(out) = Of(state.currentCommand[1])

C25_Witness ==
    LET out == Primitives(state)
    IN  /\ Len(out) = 2
        /\ out[1].strokeColor = "rgba(255, 0, 0, 1)"
        /\ out[2].strokeColor = "rgba(0, 0, 0, 1)"
        /\ out[1].strokeWidth # out[2].strokeWidth
        /\ out[1].geometry # out[2].geometry
        /\ toolState.size # out[2].strokeWidth

\* C26: a pointerDown directly followed by pointerUp or pointerCancel appends a
\* command of one point to the log and leaves the rendered primitives as they
\* were; an undo right after it removes that entry and leaves the rendered
\* primitives as they were once more.
C26_TapIsInvisibleEntry ==
    [][ /\ (lastOp' \in {"pointerUp", "pointerCancel"}
              /\ gesture.clean /\ Len(gesture.pts) = 1) =>
                /\ Len(state'.commands) = Len(gesture.log0) + 1
                /\ Front(state'.commands) = gesture.log0
                /\ Last(state'.commands).points = gesture.pts
                /\ Primitives(state') = Primitives(state)
                /\ Primitives(state')
                     = Primitives([state' EXCEPT !.commands = gesture.log0])
        /\ (lastOp' = "undo" /\ gesture.committed /\ Len(gesture.pts) = 1) =>
                /\ state'.commands = gesture.log0
                /\ Primitives(state') = Primitives(state) ]_vars

C26_Witness ==
    /\ lastOp = "undo"
    /\ ~gesture.committed
    /\ Len(gesture.pts) = 1
    /\ state.commands = gesture.log0
    /\ Len(state.commands) = 2
    /\ Len(Primitives(state)) = 2

\* C27: simplifying a simplified path changes nothing, for every array of
\* points and every tolerance.
C27_SimplifyIdempotent ==
    calc.fn = "simplifyPath" =>
        simplifyPath(calc.result, calc.kept, calc.tolerance) = calc.result

C27_Witness ==
    /\ calc.fn = "simplifyPath"
    /\ Len(calc.points) = 4
    /\ Len(calc.result) = 3
    /\ calc.tolerance = DefaultTolerance
    /\ ~Apart(calc.result[3], calc.result[2], calc.tolerance)
    /\ simplifyPath(calc.result, calc.kept, calc.tolerance) = calc.result

\* C28: REDO leaves the whole canvas state as it is; undo on an empty log leaves
\* it empty, so nothing comes back after clear; an empty log becomes non-empty
\* only by the commit of the command in progress.
C28_NothingComesBack ==
    [][ /\ lastOp' = "REDO" => state' = state
        /\ lastOp' = "clear" => state'.commands = << >>
        /\ (lastOp' = "undo" /\ state.commands = << >>) => state'.commands = << >>
        /\ (state.commands = << >> /\ state'.commands # << >>) =>
              /\ lastOp' \in {"pointerUp", "pointerCancel"}
              /\ Drawing(state)
              /\ state'.commands = << state.currentCommand[1] >> ]_vars

C28_Witness ==
    /\ lastOp = "REDO"
    /\ Len(state.commands) = 1
    /\ Drawing(state)
    /\ Len(state.currentCommand[1].points) = 2

\* C29: pointerDown, pointerMove, pointerUp, pointerCancel, undo and clear leave
\* scale, offset and dimensions as they are; SET_SCALE, SET_OFFSET and
\* SET_DIMENSIONS each change their own field and nothing else.
C29_FrameConditions ==
    [][ /\ lastOp' \in {"pointerDown", "pointerMove", "pointerUp",
                        "pointerCancel", "undo", "clear"} =>
              /\ state'.scale = state.scale
              /\ state'.offset = state.offset
              /\ state'.dimensions = state.dimensions
        /\ lastOp' = "SET_SCALE" =>
              state' = [state EXCEPT !.scale = state'.scale]
        /\ lastOp' = "SET_OFFSET" =>
              state' = [state EXCEPT !.offset = state'.offset]
        /\ lastOp' = "setCanvasDimensions" =>
              state' = [state EXCEPT !.dimensions = state'.dimensions] ]_vars

C29_Witness ==
    /\ lastOp = "setCanvasDimensions"
    /\ state.dimensions # initialCanvasState.dimensions
    /\ state.scale # initialCanvasState.scale
    /\ state.offset # initialCanvasState.offset
    /\ Len(state.commands) = 1
    /\ Drawing(state)

\* C30: the tool size is always an integer from 1 to 30, and every command
\* created by pointerDown, in progress or in the log, has a width above 0.
C30_WidthPositive ==
    /\ toolState.size \in SliderMinimum..SliderMaximum
    /\ \A i \in 1..Len(state.commands) : state.commands[i].style.width > 0
    /\ Drawing(state) => state.currentCommand[1].style.width > 0
    /\ lastOp = "pointerDown" => state.currentCommand[1].style.width = toolState.size

C30_Witness ==
    /\ Len(state.commands) = 2
    /\ state.commands[1].style.width = SliderMinimum
    /\ state.commands[2].style.width = SliderMaximum
    /\ Drawing(state)
    /\ state.currentCommand[1].style.width = 2
    /\ toolState.size = 20

\* C35: setCanvasDimensions dispatches SET_DIMENSIONS, with the dimensions asked
\* for, only when width or height differs from the stored ones; asked for the
\* stored dimensions it leaves the state as it is; after it the stored
\* dimensions are the ones asked for.
C35_SetCanvasDimensions ==
    [][ lastOp' = "setCanvasDimensions" =>
          LET call == gesture'.dims[1]
          IN  /\ state'.dimensions = call.requested
              /\ call.requested = state.dimensions =>
                    (state' = state /\ call.dispatched = << >>)
              /\ call.requested # state.dimensions =>
                    /\ call.dispatched
                         = << [type |-> "SET_DIMENSIONS", payload |-> call.requested] >>
                    /\ state' = [state EXCEPT !.dimensions = call.requested] ]_vars

C35_Witness ==
    /\ lastOp = "setCanvasDimensions"
    /\ gesture.dims # Undefined
    /\ gesture.dims[1].dispatched = << >>
    /\ state.dimensions = [width |-> 100, height |-> 200]
    /\ Drawing(state)

\* C34: after any sequence of setWebpQuality, updateSettings, toggleDarkMode and
\* toggleAutoSave from the initial settings, webpQuality is between 0 and 100
\* inclusive.
C34_WebpQualityInRange ==
    settings.webpQuality \in 0..100

\* The calls that touch the clipboard.
ClipboardCalls == { "clipboard.write", "setStringAsync", "shareAsync" }

CallsMade(calls) == { calls[k] : k \in 1..Len(calls) }

Settled(c) == c.fn = c.of

\* C33: captureCanvasAsPng, saveToGallery and copyCanvasToClipboard never throw:
\* a failure inside gives null, false and false; on a native platform
\* saveToGallery without the gallery permission returns false and at no moment
\* has called createAssetAsync; copyCanvasToClipboard returns false and at no
\* moment has made a clipboard call when the capture returns null.
C33_IoNeverThrows ==
    /\ (calc.of = "captureCanvasAsPng" /\ Settled(calc)) =>
          /\ ~calc.result.threw
          /\ captureCanvasAsPngBody(calc.env).threw => calc.result.value = Null
    /\ calc.of = "saveToGallery" =>
          /\ Settled(calc) =>
                /\ ~calc.result.threw
                /\ calc.result.value \in BOOLEAN
                /\ saveToGalleryBody(calc.env.imageUri, calc.env).threw =>
                      calc.result.value = FALSE
          /\ (calc.env.platform # "web" /\ calc.env.permission # "granted") =>
                /\ Settled(calc) => calc.result.value = FALSE
                /\ "createAssetAsync" \notin CallsMade(calc.made)
    /\ calc.of = "copyCanvasToClipboard" =>
          /\ Settled(calc) =>
                /\ ~calc.result.threw
                /\ calc.result.value \in BOOLEAN
                /\ copyCanvasToClipboardBody(calc.env).threw => calc.result.value = FALSE
          /\ captureCanvasAsPng(calc.env).value = Null =>
                /\ Settled(calc) => calc.result.value = FALSE
                /\ CallsMade(calc.made) \cap ClipboardCalls = {}

C33_Witness ==
    /\ calc.of = "copyCanvasToClipboard"
    /\ Settled(calc)
    /\ calc.env.platform = "android"
    /\ calc.env.canvasRef = "view"
    /\ calc.env.capture = "throw"
    /\ calc.result.value = FALSE
    /\ calc.made = << "setTimeout", "captureRef", "captureRef", AwaitCapture >>

\* C31: at most one save or copy is in flight at any time, and a save or copy
\* press that arrives while one is in flight is ignored: it starts no attempt
\* and changes nothing of the app; this for every order of press events, steps
\* of the attempts and renders.
C31_OneInFlight ==
    /\ [](Cardinality(InFlight(app)) <= 1)
    /\ [][(lastOp' \in {"savePress", "copyPress"} /\ InFlight(app) # {})
             => app' = app]_vars

\* A copy press arrived while the save started after the first attempt was in
\* flight, and started nothing.
C31_Witness ==
    /\ lastOp = "copyPress"
    /\ Len(app.attempts) = 2
    /\ app.attempts[1].pc = "done"
    /\ app.attempts[2].kind = "save"
    /\ app.attempts[2].pc = "saveToGallery"
    /\ app.rendered

SuccessMessage(kind) == IF kind = "save" THEN "Saved to gallery" ELSE "Copied to clipboard"

FailureMessage(kind) ==
    IF kind = "save" THEN "Could not save image" ELSE "Could not copy to clipboard"

\* The capture returned a URI and the save or copy returned true.
Succeeded(attempt) ==
    /\ attempt.pngUri # Undefined /\ ~Falsy(attempt.pngUri[1])
    /\ attempt.success = Some(TRUE)

\* An attempt that has ended has shown exactly one message, the success message
\* when it succeeded and the failure message otherwise; one that has not ended
\* has shown none.
OneMessage ==
    \A i \in DOMAIN app.attempts :
        LET attempt == app.attempts[i]
        IN  IF attempt.pc = "done"
            THEN /\ Len(attempt.feedback) = 1
                 /\ attempt.feedback[1] = IF Succeeded(attempt)
                                          THEN SuccessMessage(attempt.kind)
                                          ELSE FailureMessage(attempt.kind)
            ELSE attempt.feedback = << >>

\* The step in which an attempt ends leaves isProcessing false.
EndResets ==
    \A i \in DOMAIN app'.attempts :
        (/\ app'.attempts[i].pc = "done"
         /\ (i \notin DOMAIN app.attempts \/ app.attempts[i].pc # "done"))
            => ~app'.isProcessing

AttemptEnded(i) == i \in DOMAIN app.attempts /\ app.attempts[i].pc = "done"

\* The attempt is suspended at a promise that has not settled.
AttemptWaits(i) ==
    /\ i \in DOMAIN app.attempts
    /\ app.attempts[i].pc # "done"
    /\ app.attempts[i].settled = Undefined

====
